---- MODULE Spec2Model ----
(***************************************************************************)
(* A state-machine model of alsoorm (src/alsoorm/main.py): the process-wide *)
(* AlsoConfig singleton, one DB with its connection pool and schema cache,  *)
(* the reflected Schema/Table/Column objects and Table.insert.              *)
(*                                                                         *)
(* asyncio tasks interleave only at an await: every action below is the    *)
(* code that runs between two awaits of one coroutine.                      *)
(***************************************************************************)
EXTENDS Integers, Sequences, FiniteSets, TLC

VARIABLES
    instance,         \* AlsoConfig.instance is not None (SingletonMetaClass)
    conf,             \* AlsoConfig().conf : ConfigHolder
    registered,       \* history: pg_type -> py_type of the latest add_type call
    marked,           \* history: the names passed to mark_system_column, in call order
    schemas,          \* DB.schemas : schema_name -> Schema
    connection_pool,  \* DB.connection_pool : None or a pool
    pools,            \* number of pools asyncpg.create_pool has returned
    held,             \* pooled connections acquired and not yet released
    queried,          \* history: schema names whose catalog query get_schema has run
    pc,               \* per task: where its coroutine is suspended
    call,             \* per task: the call in progress
    ret               \* per task: what its last call returned or raised

vars == <<instance, conf, registered, marked, schemas, connection_pool, pools,
          held, queried, pc, call, ret>>

----------------------------------------------------------------------------
(* Bounds and inputs                                                       *)

\* at most this many mark_system_column calls in a run
MaxMarks == 2

\* tenacity's stop_after_delay(60)
StopAfterDelay == 60

\* how long one failed asyncpg.create_pool attempt may take
AttemptDurations == {20, 45}

\* the tasks of the sequential specifications: one caller, calls never overlap
SeqTasks == {"t1"}

\* the tasks of the concurrent specification: two callers whose calls overlap
ConcTasks == {"t1", "t2"}

Tasks == DOMAIN pc

None == 0

\* inputs of add_type and mark_system_column
AddTypeInputs == {<<"uuid", "UUID">>, <<"integer", "str">>}

MarkInputs == {"created_on", "name"}

\* errors the driver may answer a statement with
DriverErrors == {"PostgresSyntaxError", "UniqueViolationError"}

\* names looked up that no table and no column has
MissingNames == {"missing", "columns"}

\* data mappings handed to Table.insert
DataInputs ==
    { [name |-> "Ada"],
      [name |-> "Ada", created_on |-> "now"],
      [id |-> "7", name |-> "Ada", created_on |-> "now"] }

----------------------------------------------------------------------------
(* Python dicts and lists                                                  *)

EmptyDict == [k \in {} |-> k]

\* an assignment that rebinds the dict to one holding the new item only
DictSet_rebind(d, k, v) == [x \in {k} |-> v]

DictSet(d, k, v) == [x \in (DOMAIN d) \cup {k} |-> IF x = k THEN v ELSE d[x]]

Range(s) == {s[i] : i \in DOMAIN s}

Perms(s) ==
    { [i \in 1..Len(s) |-> s[p[i]]] :
        p \in {q \in [1..Len(s) -> 1..Len(s)] :
                 \A i, j \in 1..Len(s) : q[i] = q[j] => i = j} }

----------------------------------------------------------------------------
(* The process-wide configuration                                          *)

default_data_types ==
    [t \in {"integer", "bigint", "timestamp with time zone", "date",
            "character varying", "text", "boolean", "tsvector"} |->
        CASE t = "integer" -> "int"
          [] t = "bigint" -> "int"
          [] t = "timestamp with time zone" -> "datetime"
          [] t = "date" -> "date"
          [] t = "character varying" -> "str"
          [] t = "text" -> "str"
          [] t = "boolean" -> "bool"
          [] t = "tsvector" -> "str"]

ConfigHolder ==
    [system_columns |-> <<>>,
     data_types     |-> default_data_types,
     default_schema |-> "public"]

\* SingletonMetaClass.my_new: the instance is created by the first call only.
my_new(inst) == IF inst = FALSE THEN TRUE ELSE inst

\* AlsoConfig.__init__ as type.__call__ runs it on the object my_new returned:
\* on every AlsoConfig() evaluation, also when the instance already exists.
AlsoConfig__init__(c) == ConfigHolder

\* One evaluation of AlsoConfig(), on the configuration state
\* cfg = [instance, conf]; the configuration state after it.
AlsoConfig(cfg) ==
    [instance |-> my_new(cfg.instance), conf |-> AlsoConfig__init__(cfg.conf)]

Cfg == [instance |-> instance, conf |-> conf]

SetCfg(cfg) == instance' = cfg.instance /\ conf' = cfg.conf

\* Column.system_maintained: [value, cfg after the read]
system_maintained(column, cfg) ==
    LET c1 == AlsoConfig(cfg)
    IN  [value |-> column.column_name \in Range(c1.conf.system_columns),
         cfg   |-> c1]

----------------------------------------------------------------------------
(* The database the catalog query runs against                             *)

Descriptor(n, t, pk, d, nul, ord) ==
    [column_name |-> n, pg_type |-> t, primary_key |-> pk, default |-> d,
     nullable |-> nul, ordinal |-> ord]

\* schema name -> its tables, each with its columns in ordinal order
Database ==
    [s \in {"public", "ext", "audit", "empty"} |->
        CASE s = "public" ->
               << [table_name |-> "users",
                   columns |-> << Descriptor("id", "integer", TRUE, "nextval", FALSE, 1),
                                  Descriptor("name", "text", FALSE, "", FALSE, 2),
                                  Descriptor("created_on", "timestamp with time zone",
                                             FALSE, "now()", TRUE, 3) >>] >>
          [] s = "ext" ->
               << [table_name |-> "items",
                   columns |-> << Descriptor("id", "uuid", TRUE, "", FALSE, 1) >>] >>
          [] s = "audit" ->
               << [table_name |-> "pairs",
                   columns |-> << Descriptor("a", "integer", TRUE, "", FALSE, 1),
                                  Descriptor("b", "integer", TRUE, "", FALSE, 2) >>],
                  [table_name |-> "log",
                   columns |-> << Descriptor("msg", "text", FALSE, "", TRUE, 1) >>],
                  [table_name |-> "db",
                   columns |-> << Descriptor("version", "integer", TRUE, "", FALSE, 1) >>] >>
          [] s = "empty" -> << >>]

SchemaNames == DOMAIN Database

TableNames ==
    UNION { {Database[s][k].table_name : k \in DOMAIN Database[s]} : s \in SchemaNames }

ColumnIndexes ==
    UNION { UNION { DOMAIN Database[s][k].columns : k \in DOMAIN Database[s] } :
              s \in SchemaNames }

ColumnNames ==
    UNION { UNION { {Database[s][k].columns[i].column_name :
                        i \in DOMAIN Database[s][k].columns} :
                      k \in DOMAIN Database[s] } :
              s \in SchemaNames }

\* names looked up as attributes of a Schema or a Table
AttrInputs == TableNames \cup ColumnNames \cup MissingNames

\* the schemas whose reflected model is read
ModelSchemas == {"audit", "empty"}

\* the schemas concurrent callers ask for
ConcSchemas == {"audit", "empty"}

\* the schemas the configuration specification reflects
ConfigSchemas == {"public", "ext"}

RECURSIVE Deliveries(_)
\* JSON_AGG has no ORDER BY: each table's descriptors arrive in any order.
Deliveries(tables) ==
    IF tables = << >> THEN { << >> }
    ELSE { << [table_name |-> Head(tables).table_name, columns |-> p] >> \o rest :
             p \in Perms(Head(tables).columns), rest \in Deliveries(Tail(tables)) }

\* the results schema_query can deliver for a schema name
schema_query(schema_name) == Deliveries(Database[schema_name])

----------------------------------------------------------------------------
(* Column, Table, Schema                                                   *)

Column(col, py_type) ==
    [column_name |-> col.column_name, pg_type |-> col.pg_type, py_type |-> py_type,
     primary_key |-> col.primary_key, nullable |-> col.nullable,
     ordinal |-> col.ordinal, default |-> col.default]

Table(schema_name, table_name, columns) ==
    [schema |-> schema_name, table_name |-> table_name, columns |-> columns,
     secondaries |-> << >>]

NoTable == Table("", "", << >>)

Schema(id, schema_name, tables) ==
    [id |-> id, schema_name |-> schema_name, tables |-> tables]

\* Table.primary_key
primary_key(table) == SelectSeq(table.columns, LAMBDA column : column.primary_key)

RECURSIVE insertable_loop(_, _, _)
\* the comprehension of Table.insertable: `and` reads system_maintained only
\* for a column that is not a primary key
insertable_loop(columns, acc, cfg) ==
    IF columns = << >> THEN [value |-> acc, cfg |-> cfg]
    ELSE LET column == Head(columns)
         IN  IF column.primary_key
             THEN insertable_loop(Tail(columns), acc, cfg)
             ELSE LET sm == system_maintained(column, cfg)
                  IN  insertable_loop(Tail(columns),
                                      IF ~sm.value THEN Append(acc, column) ELSE acc,
                                      sm.cfg)

\* Table.insertable: [value, cfg after the read]
insertable(table, cfg) == insertable_loop(table.columns, << >>, cfg)

\* a test that lets a composite primary key through
not_one_primary_key_empty(table) == Len(primary_key(table)) = 0

\* `len(self.primary_key) != 1` of Table.pk_name
not_one_primary_key(table) == Len(primary_key(table)) # 1

\* Table.pk_name: [error, value]
pk_name(table) ==
    IF not_one_primary_key(table)
    THEN [error |-> "NotImplementedError", value |-> ""]
    ELSE [error |-> "", value |-> primary_key(table)[1].column_name]

\* Column.__eq__ against a str: the dataclass __eq__ answers NotImplemented for
\* a value of another class, so the comparison is False.
Column__eq__(column, attr) == FALSE

\* `attr in self.columns` of Table.__getattr__: columns is a list of Column
attr_in_columns(table, attr) ==
    \E i \in 1..Len(table.columns) : Column__eq__(table.columns[i], attr)

\* the attributes the normal lookup finds on a Table: the fields of the
\* dataclass, the properties and the method
TableAttributes ==
    {"schema", "table_name", "columns", "secondaries",
     "primary_key", "full_name", "pk_name", "insertable", "insert"}

\* Table.__getattr__: [kind, error]; self.columns is a list, which a str
\* cannot index
Table__getattr__(table, attr) ==
    IF attr_in_columns(table, attr)
    THEN [kind |-> "error", error |-> "TypeError"]
    ELSE [kind |-> "error", error |-> "AttributeError"]

\* the attribute access table.<attr>: __getattr__ runs only when the normal
\* lookup finds no attribute of that name
Table_getattr(table, attr) ==
    IF attr \in TableAttributes
    THEN [kind |-> "field", error |-> ""]
    ELSE Table__getattr__(table, attr)

\* Schema.__getattr__'s test
attr_in_tables(schema, attr) == attr \in DOMAIN schema.tables

\* the instance attributes of a Schema: the fields of the dataclass
SchemaFields == {"schema_name", "tables", "db"}

\* Schema.__getattr__: [kind, error, table]
Schema__getattr__(schema, attr) ==
    IF attr_in_tables(schema, attr)
    THEN [kind |-> "table", error |-> "", table |-> schema.tables[attr]]
    ELSE [kind |-> "error", error |-> "AttributeError", table |-> NoTable]

\* the attribute access schema.<attr>: Python calls __getattr__ only when the
\* normal lookup finds no attribute of that name; a field is answered by the
\* normal lookup.
Schema_getattr(schema, attr) ==
    IF attr \in SchemaFields
    THEN [kind |-> "field", error |-> "", table |-> NoTable]
    ELSE Schema__getattr__(schema, attr)

----------------------------------------------------------------------------
(* DB.reflect_schema, lines 187-197: building the Schema from the rows     *)

\* a lookup that falls back to str for a type with no entry
type_lookup_default(data_types, pg_type) ==
    IF pg_type \in DOMAIN data_types
    THEN [error |-> "", py_type |-> data_types[pg_type]]
    ELSE [error |-> "", py_type |-> "str"]

\* self.config.data_types[pg_type]: a dict lookup, KeyError without an entry
type_lookup(data_types, pg_type) ==
    IF pg_type \in DOMAIN data_types
    THEN [error |-> "", py_type |-> data_types[pg_type]]
    ELSE [error |-> "KeyError", py_type |-> ""]

RECURSIVE build_columns(_, _, _)
\* the inner loop; self.config is one AlsoConfig() evaluation per column
build_columns(cols, acc, cfg) ==
    IF cols = << >> THEN [error |-> "", columns |-> acc, cfg |-> cfg]
    ELSE LET col == Head(cols)
             c1  == AlsoConfig(cfg)
             py  == type_lookup(c1.conf.data_types, col.pg_type)
         IN  IF py.error # ""
             THEN [error |-> py.error, columns |-> acc, cfg |-> c1]
             ELSE build_columns(Tail(cols), Append(acc, Column(col, py.py_type)), c1)

RECURSIVE build_tables(_, _, _, _)
\* the outer loop over the result rows
build_tables(rows, schema_name, tables, cfg) ==
    IF rows = << >> THEN [error |-> "", tables |-> tables, cfg |-> cfg]
    ELSE LET row == Head(rows)
             b   == build_columns(row.columns, << >>, cfg)
         IN  IF b.error # ""
             THEN [error |-> b.error, tables |-> tables, cfg |-> b.cfg]
             ELSE build_tables(Tail(rows), schema_name,
                               DictSet(tables, row.table_name,
                                       Table(schema_name, row.table_name, b.columns)),
                               b.cfg)

\* a reflection that takes a result with no rows for a failure
reflect_rows_required(rows, schema_name, cfg) ==
    IF rows = << >>
    THEN [error |-> "LookupError", tables |-> EmptyDict, cfg |-> cfg]
    ELSE build_tables(rows, schema_name, EmptyDict, cfg)

\* `tables = {}` and the loop over the result of DB.reflect_schema
reflect_rows(rows, schema_name, cfg) ==
    build_tables(rows, schema_name, EmptyDict, cfg)

----------------------------------------------------------------------------
(* Calls, statements and results                                           *)

NoCommand == [text |-> "", table |-> "", columns |-> << >>, args |-> << >>]

NoOutcome == [ok |-> FALSE, error |-> "", rows |-> << >>]

\* a call in progress: its operation and arguments, its statement, the
\* driver's answer, and what it has done so far (connections acquired,
\* statements run, connections released, connect's elapsed time and attempts)
NoCall ==
    [op |-> "none", name |-> "", table |-> "", attr |-> "", data |-> EmptyDict,
     command |-> NoCommand, outcome |-> NoOutcome,
     acq |-> 0, stm |-> 0, rel |-> 0, elapsed |-> 0, attempts |-> 0]

NewCall(op, name, table, command) ==
    [NoCall EXCEPT !.op = op, !.name = name, !.table = table, !.command = command]

\* an attribute lookup: getattr(object, attr)
NewLookup(op, name, table, attr) ==
    [NewCall(op, name, table, NoCommand) EXCEPT !.attr = attr]

NoSchema == Schema(0, "", EmptyDict)

\* the value a call hands back: a Schema, a Table, a list of Columns, a bool
\* or a str
NoValue ==
    [schema |-> NoSchema, table |-> NoTable, columns |-> << >>, flag |-> FALSE,
     text |-> ""]

SchemaValue(schema) == [NoValue EXCEPT !.schema = schema]

TableValue(table) == [NoValue EXCEPT !.table = table]

TextValue(text) == [NoValue EXCEPT !.text = text]

ColumnsValue(columns) == [NoValue EXCEPT !.columns = columns]

FlagValue(flag) == [NoValue EXCEPT !.flag = flag]

\* tick flips each time a call of the task ends
NoRet ==
    [op |-> "none", name |-> "", table |-> "", attr |-> "", data |-> EmptyDict,
     command |-> NoCommand, kind |-> "none", error |-> "", value |-> NoValue,
     acq |-> 0, stm |-> 0, rel |-> 0, elapsed |-> 0, attempts |-> 0,
     tick |-> FALSE]

\* what call c hands back: kind is "ok", "schema", "rows", "row", "value" or "error"
Result(c, kind, error, value, tick) ==
    [op |-> c.op, name |-> c.name, table |-> c.table, attr |-> c.attr,
     data |-> c.data,
     command |-> c.command, kind |-> kind, error |-> error, value |-> value,
     acq |-> c.acq, stm |-> c.stm, rel |-> c.rel, elapsed |-> c.elapsed,
     attempts |-> c.attempts, tick |-> tick]

\* the coroutine of task t ends: it returns or raises
Done(t, c, kind, error, value) ==
    /\ pc' = [pc EXCEPT ![t] = "idle"]
    /\ call' = [call EXCEPT ![t] = NoCall]
    /\ ret' = [ret EXCEPT ![t] = Result(c, kind, error, value, ~ret[t].tick)]

\* a call of task t starts and suspends: its last result is dropped
Suspend(t, c, at) ==
    /\ pc' = [pc EXCEPT ![t] = at]
    /\ call' = [call EXCEPT ![t] = c]
    /\ ret' = [ret EXCEPT ![t] = [NoRet EXCEPT !.tick = ret[t].tick]]

\* the outcomes the driver can give a statement
DriverOutcomes(command) ==
    { [ok |-> FALSE, error |-> e, rows |-> << >>] : e \in DriverErrors }
    \cup
    IF command.text = "schema_query"
    THEN { [ok |-> TRUE, error |-> "", rows |-> r] : r \in schema_query(command.args[1]) }
    ELSE { [ok |-> TRUE, error |-> "", rows |-> << >>] }

AllOutcomes ==
    DriverOutcomes(NoCommand)
    \cup UNION { DriverOutcomes([NoCommand EXCEPT !.text = "schema_query", !.args = << n >>]) :
                   n \in SchemaNames }

\* Schema objects some reference still reaches; a new object differs from each
LiveIds ==
    { schemas[n].id : n \in DOMAIN schemas }
    \cup { ret[t].value.schema.id : t \in {u \in Tasks : ret[u].kind = "schema"} }

FreshId == CHOOSE i \in 1..(Cardinality(LiveIds) + 1) :
              i \notin LiveIds /\ \A j \in 1..(i - 1) : j \in LiveIds

\* a test that always sees no pool
pool_is_none_always == TRUE

\* `self.connection_pool is None` of DB.connect
pool_is_none == connection_pool = None

\* a test that never sees the cached Schema
not_in_schemas_always(schema_name) == TRUE

\* `schema_name not in self.schemas` of DB.get_schema
not_in_schemas(schema_name) == schema_name \notin DOMAIN schemas

\* an entry that turns a call away while another task runs the same call
EnterAcquire_single_flight(t, c) ==
    IF connection_pool = None
    THEN Done(t, c, "error", "AttributeError", NoValue)
    ELSE IF \E u \in Tasks \ {t} : call[u].op = c.op /\ call[u].name = c.name
         THEN Done(t, c, "error", "RuntimeError", NoValue)
         ELSE Suspend(t, c, "acquiring")

\* `async with self.connection_pool.acquire()` is entered by call c: on a DB
\* that has no pool, None.acquire raises AttributeError.
EnterAcquire(t, c) ==
    IF connection_pool = None
    THEN Done(t, c, "error", "AttributeError", NoValue)
    ELSE Suspend(t, c, "acquiring")

----------------------------------------------------------------------------
(* AlsoConfig                                                              *)

\* an evaluation of AlsoConfig() by application code
AlsoConfigNew ==
    /\ SetCfg(AlsoConfig(Cfg))
    /\ UNCHANGED <<registered, marked, schemas, connection_pool, pools, held,
                   queried, pc, call, ret>>

\* AlsoConfig.add_type on the instance
add_type(pg_type, py_type) ==
    /\ instance
    /\ conf' = [conf EXCEPT !.data_types = DictSet(conf.data_types, pg_type, py_type)]
    /\ registered' = DictSet(registered, pg_type, py_type)
    /\ UNCHANGED <<instance, marked, schemas, connection_pool, pools, held,
                   queried, pc, call, ret>>

\* AlsoConfig.mark_system_column on the instance
mark_system_column(column_name) ==
    /\ instance
    /\ Len(marked) < MaxMarks
    /\ conf' = [conf EXCEPT !.system_columns = Append(conf.system_columns, column_name)]
    /\ marked' = Append(marked, column_name)
    /\ UNCHANGED <<instance, registered, schemas, connection_pool, pools, held,
                   queried, pc, call, ret>>

\* task t reads Column.system_maintained of a reflected column
ReadSystemMaintained(t, schema_name, table_name, i) ==
    /\ pc[t] = "idle"
    /\ schema_name \in DOMAIN schemas
    /\ table_name \in DOMAIN schemas[schema_name].tables
    /\ i \in 1..Len(schemas[schema_name].tables[table_name].columns)
    /\ LET column == schemas[schema_name].tables[table_name].columns[i]
           sm     == system_maintained(column, Cfg)
       IN  /\ SetCfg(sm.cfg)
           /\ Done(t, NewCall("system_maintained", column.column_name, table_name,
                              NoCommand),
                   "value", "", FlagValue(sm.value))
    /\ UNCHANGED <<registered, marked, schemas, connection_pool, pools, held, queried>>

\* task t reads Table.insertable of a reflected table
ReadInsertable(t, schema_name, table_name) ==
    /\ pc[t] = "idle"
    /\ schema_name \in DOMAIN schemas
    /\ table_name \in DOMAIN schemas[schema_name].tables
    /\ LET ins == insertable(schemas[schema_name].tables[table_name], Cfg)
       IN  /\ SetCfg(ins.cfg)
           /\ Done(t, NewCall("insertable", schema_name, table_name, NoCommand),
                   "value", "", ColumnsValue(ins.value))
    /\ UNCHANGED <<registered, marked, schemas, connection_pool, pools, held, queried>>

----------------------------------------------------------------------------
(* DB.connect under @retry(stop=stop_after_delay(60))                      *)

\* a stop test that lets the attempt at exactly the budget go on
stop_after_delay_late(elapsed) == elapsed > StopAfterDelay

\* tenacity's stop_after_delay: seconds since the first attempt started
stop_after_delay(elapsed) == elapsed >= StopAfterDelay

\* one run of connect's body by call c, up to its await
Attempt(t, c) ==
    IF pool_is_none
    THEN Suspend(t, [c EXCEPT !.attempts = c.attempts + 1], "connecting")
    ELSE Done(t, c, "ok", "", NoValue)

connect(t) ==
    /\ pc[t] = "idle"
    /\ Attempt(t, NewCall("connect", "", "", NoCommand))
    /\ UNCHANGED <<instance, conf, registered, marked, schemas, connection_pool,
                   pools, held, queried>>

\* asyncpg.create_pool returns a pool, which connect assigns
create_pool_returns(t) ==
    /\ pc[t] = "connecting"
    /\ pools' = pools + 1
    /\ connection_pool' = pools + 1
    /\ Done(t, call[t], "ok", "", NoValue)
    /\ UNCHANGED <<instance, conf, registered, marked, schemas, held, queried>>

\* asyncpg.create_pool raises after d time units; tenacity stops or goes on
create_pool_raises(t, d) ==
    /\ pc[t] = "connecting"
    /\ LET c == [call[t] EXCEPT !.elapsed = call[t].elapsed + d]
       IN  IF stop_after_delay(c.elapsed)
           THEN Done(t, c, "error", "RetryError", NoValue)
           ELSE /\ pc' = [pc EXCEPT ![t] = "retrying"]
                /\ call' = [call EXCEPT ![t] = c]
                /\ UNCHANGED ret
    /\ UNCHANGED <<instance, conf, registered, marked, schemas, connection_pool,
                   pools, held, queried>>

\* tenacity calls connect's body again
retry(t) ==
    /\ pc[t] = "retrying"
    /\ Attempt(t, call[t])
    /\ UNCHANGED <<instance, conf, registered, marked, schemas, connection_pool,
                   pools, held, queried>>

----------------------------------------------------------------------------
(* DB.get_schema, DB.reflect_schema, DB.fetch, DB.fetchrow, Table.insert   *)

CatalogQuery(schema_name) ==
    [text |-> "schema_query", table |-> "", columns |-> << >>, args |-> << schema_name >>]

UserCommand == [text |-> "SELECT", table |-> "", columns |-> << >>, args |-> << >>]

\* the statement text of Table.insert: column names and $1..$n of insertable
InsertCommand(table, ins, args) ==
    [text |-> "INSERT", table |-> table.table_name,
     columns |-> [i \in 1..Len(ins) |-> ins[i].column_name], args |-> args]

get_schema(t, schema_name) ==
    /\ pc[t] = "idle"
    /\ LET c == NewCall("get_schema", schema_name, "", CatalogQuery(schema_name))
       IN  IF not_in_schemas(schema_name)
           THEN EnterAcquire(t, c)
           ELSE Done(t, c, "schema", "", SchemaValue(schemas[schema_name]))
    /\ UNCHANGED <<instance, conf, registered, marked, schemas, connection_pool,
                   pools, held, queried>>

reflect_schema(t, schema_name) ==
    /\ pc[t] = "idle"
    /\ EnterAcquire(t, NewCall("reflect_schema", schema_name, "",
                               CatalogQuery(schema_name)))
    /\ UNCHANGED <<instance, conf, registered, marked, schemas, connection_pool,
                   pools, held, queried>>

fetch(t) ==
    /\ pc[t] = "idle"
    /\ EnterAcquire(t, NewCall("fetch", "", "", UserCommand))
    /\ UNCHANGED <<instance, conf, registered, marked, schemas, connection_pool,
                   pools, held, queried>>

fetchrow(t) ==
    /\ pc[t] = "idle"
    /\ EnterAcquire(t, NewCall("fetchrow", "", "", UserCommand))
    /\ UNCHANGED <<instance, conf, registered, marked, schemas, connection_pool,
                   pools, held, queried>>

\* Table.insert up to its await: insertable is read, then the arguments of
\* fetchrow are evaluated, and self.get_values goes through Table.__getattr__
\* (Table defines no get_values), once per insertable column.
insert(t, schema_name, table_name, data) ==
    /\ pc[t] = "idle"
    /\ schema_name \in DOMAIN schemas
    /\ table_name \in DOMAIN schemas[schema_name].tables
    /\ LET table == schemas[schema_name].tables[table_name]
           ins   == insertable(table, Cfg)
           c     == [NewCall("insert", schema_name, table_name,
                             InsertCommand(table, ins.value, << >>))
                       EXCEPT !.data = data]
       IN  /\ SetCfg(ins.cfg)
           /\ IF ins.value # << >>
              THEN IF attr_in_columns(table, "get_values")
                   THEN Done(t, c, "error", "TypeError", NoValue)
                   ELSE Done(t, c, "error", "AttributeError", NoValue)
              ELSE EnterAcquire(t, c)
    /\ UNCHANGED <<registered, marked, schemas, connection_pool, pools, held, queried>>

\* pool.acquire() hands the task a connection
Acquire(t) ==
    /\ pc[t] = "acquiring"
    /\ held' = held + 1
    /\ pc' = [pc EXCEPT ![t] = "executing"]
    /\ call' = [call EXCEPT ![t].acq = @ + 1]
    /\ UNCHANGED <<instance, conf, registered, marked, schemas, connection_pool,
                   pools, queried, ret>>

\* connection.fetch / connection.fetchrow runs the statement
Execute(t, outcome) ==
    /\ pc[t] = "executing"
    /\ outcome \in DriverOutcomes(call[t].command)
    /\ pc' = [pc EXCEPT ![t] = "releasing"]
    /\ call' = [call EXCEPT ![t].stm = @ + 1, ![t].outcome = outcome]
    /\ queried' = IF call[t].op = "get_schema" THEN queried \cup {call[t].name}
                  ELSE queried
    /\ UNCHANGED <<instance, conf, registered, marked, schemas, connection_pool,
                   pools, held, ret>>

\* an error replaced on its way to the caller
statement_error_wrapped(outcome) == "RetryError"

\* what the coroutine raises for a statement the driver rejected: no except
\* clause and no retry decorator stands between the driver and the caller
statement_error(outcome) == outcome.error

\* a block exit that gives the connection back only after a success
aexit_leaks(h, outcome) == IF outcome.ok THEN h - 1 ELSE h

\* __aexit__ of `async with pool.acquire()`: the connection is given back
\* whether the block ended normally or raised
aexit(h, outcome) == h - 1

\* the rest of call c once its connection is released: the driver's error is
\* raised, or the result is returned; reflect_schema builds the Schema and
\* get_schema stores it in self.schemas.
AfterRelease(t, c) ==
    IF ~c.outcome.ok
    THEN /\ Done(t, c, "error", statement_error(c.outcome), NoValue)
         /\ UNCHANGED <<instance, conf, schemas>>
    ELSE CASE c.op \in {"get_schema", "reflect_schema"} ->
                LET b == reflect_rows(c.outcome.rows, c.name, Cfg)
                    schema == Schema(FreshId, c.name, b.tables)
                IN  /\ SetCfg(b.cfg)
                    /\ IF b.error # ""
                       THEN /\ Done(t, c, "error", b.error, NoValue)
                            /\ UNCHANGED schemas
                       ELSE /\ Done(t, c, "schema", "", SchemaValue(schema))
                            /\ schemas' = IF c.op = "get_schema"
                                          THEN DictSet(schemas, c.name, schema)
                                          ELSE schemas
           [] c.op = "fetch" ->
                /\ Done(t, c, "rows", "", NoValue)
                /\ UNCHANGED <<instance, conf, schemas>>
           [] c.op \in {"fetchrow", "insert"} ->
                /\ Done(t, c, "row", "", NoValue)
                /\ UNCHANGED <<instance, conf, schemas>>

\* the `async with` block is left: the connection goes back to the pool
Release(t) ==
    /\ pc[t] = "releasing"
    /\ held' = aexit(held, call[t].outcome)
    /\ AfterRelease(t, [call[t] EXCEPT !.rel = @ + 1])
    /\ UNCHANGED <<registered, marked, connection_pool, pools, queried>>

\* task t reads the attribute attr of a cached Schema
ReadSchemaAttr(t, schema_name, attr) ==
    /\ pc[t] = "idle"
    /\ schema_name \in DOMAIN schemas
    /\ LET got == Schema_getattr(schemas[schema_name], attr)
       IN  Done(t, NewLookup("Schema.getattr", schema_name, "", attr),
                got.kind, got.error, TableValue(got.table))
    /\ UNCHANGED <<instance, conf, registered, marked, schemas, connection_pool,
                   pools, held, queried>>

\* task t reads the attribute attr of a reflected Table
ReadTableAttr(t, schema_name, table_name, attr) ==
    /\ pc[t] = "idle"
    /\ schema_name \in DOMAIN schemas
    /\ table_name \in DOMAIN schemas[schema_name].tables
    /\ LET got == Table_getattr(schemas[schema_name].tables[table_name], attr)
       IN  Done(t, NewLookup("Table.getattr", schema_name, table_name, attr),
                got.kind, got.error, NoValue)
    /\ UNCHANGED <<instance, conf, registered, marked, schemas, connection_pool,
                   pools, held, queried>>

\* task t reads Table.pk_name of a reflected table
ReadPkName(t, schema_name, table_name) ==
    /\ pc[t] = "idle"
    /\ schema_name \in DOMAIN schemas
    /\ table_name \in DOMAIN schemas[schema_name].tables
    /\ LET pk == pk_name(schemas[schema_name].tables[table_name])
           c  == NewCall("pk_name", schema_name, table_name, NoCommand)
       IN  IF pk.error # ""
           THEN Done(t, c, "error", pk.error, NoValue)
           ELSE Done(t, c, "value", "", TextValue(pk.value))
    /\ UNCHANGED <<instance, conf, registered, marked, schemas, connection_pool,
                   pools, held, queried>>

----------------------------------------------------------------------------
(* Specifications                                                          *)

\* a DB just constructed, one caller
Init ==
    /\ instance = FALSE
    /\ conf = ConfigHolder
    /\ registered = EmptyDict
    /\ marked = << >>
    /\ schemas = EmptyDict
    /\ connection_pool = None
    /\ pools = 0
    /\ held = 0
    /\ queried = {}
    /\ pc = [t \in SeqTasks |-> "idle"]
    /\ call = [t \in SeqTasks |-> NoCall]
    /\ ret = [t \in SeqTasks |-> NoRet]

\* the DB and its driver: connecting, reflecting, running statements
Next ==
    \E t \in SeqTasks :
        \/ connect(t)
        \/ create_pool_returns(t)
        \/ \E d \in AttemptDurations : create_pool_raises(t, d)
        \/ retry(t)
        \/ \E n \in SchemaNames : get_schema(t, n)
        \/ \E n \in SchemaNames : reflect_schema(t, n)
        \/ fetch(t)
        \/ fetchrow(t)
        \/ \E n \in SchemaNames, tb \in TableNames,
              data \in DataInputs : insert(t, n, tb, data)
        \/ Acquire(t)
        \/ \E o \in AllOutcomes : Execute(t, o)
        \/ Release(t)

Spec == Init /\ [][Next]_vars

\* a DB whose connect() has returned, one caller
InitConnected ==
    /\ instance = FALSE
    /\ conf = ConfigHolder
    /\ registered = EmptyDict
    /\ marked = << >>
    /\ schemas = EmptyDict
    /\ connection_pool = 1
    /\ pools = 1
    /\ held = 0
    /\ queried = {}
    /\ pc = [t \in SeqTasks |-> "idle"]
    /\ call = [t \in SeqTasks |-> NoCall]
    /\ ret = [t \in SeqTasks |-> NoRet]

\* the application configures AlsoConfig, reflects, reads the model and inserts
NextConfig ==
    \/ AlsoConfigNew
    \/ \E a \in AddTypeInputs : add_type(a[1], a[2])
    \/ \E n \in MarkInputs : mark_system_column(n)
    \/ \E t \in SeqTasks :
        \/ \E n \in ConfigSchemas, tb \in TableNames, i \in ColumnIndexes :
              ReadSystemMaintained(t, n, tb, i)
        \/ \E n \in ConfigSchemas, tb \in TableNames :
              ReadInsertable(t, n, tb)
        \/ \E n \in ConfigSchemas : get_schema(t, n)
        \/ \E n \in ConfigSchemas, tb \in TableNames,
              data \in DataInputs : insert(t, n, tb, data)
        \/ Acquire(t)
        \/ \E o \in AllOutcomes : Execute(t, o)
        \/ Release(t)

SpecConfig == InitConnected /\ [][NextConfig]_vars

\* the application reflects schemas and reads the reflected model
NextModel ==
    \E t \in SeqTasks :
        \/ \E n \in ModelSchemas : get_schema(t, n)
        \/ Acquire(t)
        \/ \E o \in AllOutcomes : Execute(t, o)
        \/ Release(t)
        \/ \E n \in ModelSchemas, tb \in TableNames : ReadPkName(t, n, tb)
        \/ \E n \in ModelSchemas, a \in AttrInputs : ReadSchemaAttr(t, n, a)
        \/ \E n \in ModelSchemas, tb \in TableNames, a \in AttrInputs :
              ReadTableAttr(t, n, tb, a)

SpecModel == InitConnected /\ [][NextModel]_vars

\* a DB just constructed, two callers on one event loop
InitConc ==
    /\ instance = FALSE
    /\ conf = ConfigHolder
    /\ registered = EmptyDict
    /\ marked = << >>
    /\ schemas = EmptyDict
    /\ connection_pool = None
    /\ pools = 0
    /\ held = 0
    /\ queried = {}
    /\ pc = [t \in ConcTasks |-> "idle"]
    /\ call = [t \in ConcTasks |-> NoCall]
    /\ ret = [t \in ConcTasks |-> NoRet]

\* connect and get_schema calls of the two callers, interleaved at the awaits
NextConc ==
    \E t \in ConcTasks :
        \/ connect(t)
        \/ create_pool_returns(t)
        \/ \E d \in AttemptDurations : create_pool_raises(t, d)
        \/ retry(t)
        \/ \E n \in ConcSchemas : get_schema(t, n)
        \/ Acquire(t)
        \/ \E o \in AllOutcomes : Execute(t, o)
        \/ Release(t)

SpecConc == InitConc /\ [][NextConc]_vars

----------------------------------------------------------------------------
(* Claims about the configuration (SpecConfig)                             *)

\* a call of task t to op ends in this step
Ends(t, op) == ret'[t].tick # ret[t].tick /\ ret'[t].op = op

\* a reflection by task t ends in this step: the connection is released and
\* the delivered rows are built into a Schema
ReflectionEnds(t) ==
    /\ pc[t] = "releasing"
    /\ call[t].outcome.ok
    /\ Ends(t, "get_schema") \/ Ends(t, "reflect_schema")

\* the column descriptors the catalog query delivered to task t
Delivered(t) ==
    UNION { Range(call[t].outcome.rows[k].columns) : k \in DOMAIN call[t].outcome.rows }

\* the Columns of a Schema
BuiltColumns(schema) ==
    UNION { Range(schema.tables[n].columns) : n \in DOMAIN schema.tables }

\* C1: once add_type(t, h) has been called, every later reflection that meets
\* a column of native type t builds a Column whose py_type is h (the latest h
\* registered for t): when every delivered type is registered or a default,
\* the reflection hands back a Schema, and each of its Columns whose type was
\* registered carries the registered py_type.
C1_RegisteredTypeIsReflected ==
    [][\A t \in Tasks :
          (/\ ReflectionEnds(t)
           /\ \A d \in Delivered(t) :
                 d.pg_type \in (DOMAIN registered) \cup (DOMAIN default_data_types))
          => /\ ret'[t].kind = "schema"
             /\ \A column \in BuiltColumns(ret'[t].value.schema) :
                   column.pg_type \in DOMAIN registered
                   => column.py_type = registered[column.pg_type]]_vars

\* C2: once mark_system_column(n) has been called, every read of
\* system_maintained on a Column named n gives true.
C2_MarkedColumnIsSystemMaintained ==
    [][\A t \in Tasks :
          (Ends(t, "system_maintained") /\ ret'[t].name \in Range(marked))
          => ret'[t].value.flag]_vars

\* C3: the list Table.insertable returns holds no primary-key column and no
\* column whose name has been marked as system-maintained.
C3_InsertableExcludesPkAndMarked ==
    [][\A t \in Tasks :
          Ends(t, "insertable")
          => \A column \in Range(ret'[t].value.columns) :
                /\ ~column.primary_key
                /\ column.column_name \notin Range(marked)]_vars

\* the columns C4 calls insertable: not a primary key, not marked
IntendedInsertable(table) ==
    SelectSeq(table.columns,
              LAMBDA column : ~column.primary_key
                              /\ column.column_name \notin Range(marked))

\* the call Table.insert of task t is made in this step; x is the call
InsertStarts(t, x) ==
    /\ pc[t] = "idle"
    /\ x.op = "insert"
    /\ \/ pc'[t] = "acquiring" /\ x = call'[t]
       \/ Ends(t, "insert") /\ x = ret'[t]

\* C4: for a table with at least one insertable column and a data mapping that
\* supplies every insertable column, Table.insert issues one INSERT whose
\* column list is the insertable names in table order and whose parameters
\* are data's values for them in the same order.
C4_InsertIssuesTheStatement ==
    [][\A t \in Tasks : \A x \in {call'[t], ret'[t]} :
          (/\ InsertStarts(t, x)
           /\ IntendedInsertable(schemas[x.name].tables[x.table]) # << >>
           /\ \A column \in Range(IntendedInsertable(schemas[x.name].tables[x.table])) :
                 column.column_name \in DOMAIN x.data)
          => LET table == schemas[x.name].tables[x.table]
                 ins   == IntendedInsertable(table)
             IN  /\ pc'[t] = "acquiring"
                 /\ x.command =
                        InsertCommand(table, ins,
                                      [i \in 1..Len(ins) |-> x.data[ins[i].column_name]])]_vars

----------------------------------------------------------------------------
(* Claims about the DB (Spec, SpecConfig)                                  *)

\* task t's catalog query for get_schema runs in this step
CatalogQueryRuns(t) ==
    pc[t] = "executing" /\ pc'[t] = "releasing" /\ call[t].op = "get_schema"

\* C5 as claimed: in a sequence of non-overlapping get_schema calls the
\* catalog query for a schema name runs at most once.
C5_CatalogQueryRunsAtMostOnce ==
    [][\A t \in Tasks : CatalogQueryRuns(t) => call[t].name \notin queried]_vars

\* C5 as amended: in a sequence of non-overlapping get_schema calls, once a
\* Schema is cached for a name the catalog query is not run for that name
\* again, the cached entry stays the same object, and get_schema(name) returns
\* that object without acquiring a connection or running a statement.
C5_CachedSchemaIsNotReflectedAgain ==
    [][/\ \A t \in Tasks : CatalogQueryRuns(t) => call[t].name \notin DOMAIN schemas
       /\ \A n \in DOMAIN schemas : n \in DOMAIN schemas' /\ schemas'[n] = schemas[n]
       /\ \A t \in Tasks :
             (pc[t] = "idle" /\ Ends(t, "get_schema") /\ ret'[t].name \in DOMAIN schemas)
             => /\ ret'[t].kind = "schema"
                /\ ret'[t].value.schema = schemas[ret'[t].name]
                /\ ret'[t].acq = 0 /\ ret'[t].stm = 0
                /\ held' = held]_vars

\* a get_schema call was answered from the cache
C5_Witness ==
    \E t \in Tasks :
        /\ ret[t].op = "get_schema" /\ ret[t].kind = "schema" /\ ret[t].acq = 0
        /\ ret[t].name \in queried
        /\ ret[t].value.schema = schemas[ret[t].name]

\* C6: when get_schema(name) reflects a schema with a column whose native
\* type has no entry in the type registry, the call fails with the lookup's
\* error (KeyError) and name is not a key of DB.schemas afterwards.
C6_UnknownTypeFailsReflection ==
    [][\A t \in Tasks :
          (/\ pc[t] = "releasing" /\ call[t].outcome.ok /\ Ends(t, "get_schema")
           /\ \E d \in Delivered(t) : d.pg_type \notin DOMAIN conf.data_types)
          => /\ ret'[t].kind = "error" /\ ret'[t].error = "KeyError"
             /\ ret'[t].name \notin DOMAIN schemas'
             /\ schemas' = schemas]_vars

\* a get_schema call ran the catalog query and failed on an unknown type
C6_Witness ==
    \E t \in Tasks :
        /\ ret[t].op = "get_schema" /\ ret[t].error = "KeyError" /\ ret[t].stm = 1
        /\ ret[t].name \notin DOMAIN schemas

\* task t calls connect in this step
ConnectStarts(t) ==
    /\ pc[t] = "idle"
    /\ \/ pc'[t] = "connecting" /\ call'[t].op = "connect"
       \/ Ends(t, "connect")

\* C7: a connect() call on a DB that has its pool is a no-op: it returns at
\* once, creates no pool and leaves connection_pool the same pool; a pool is
\* only ever created while the DB has none.
C7_ConnectIsIdempotent ==
    [][/\ \A t \in Tasks :
             (ConnectStarts(t) /\ connection_pool # None)
             => /\ Ends(t, "connect") /\ ret'[t].kind = "ok" /\ ret'[t].attempts = 0
                /\ connection_pool' = connection_pool
                /\ pools' = pools
       /\ pools' # pools => connection_pool = None /\ pools' = 1]_vars

\* a second connect() has returned without an attempt, the first pool in place
C7_Witness ==
    \E t \in Tasks :
        /\ ret[t].op = "connect" /\ ret[t].kind = "ok" /\ ret[t].attempts = 0
        /\ connection_pool = 1 /\ pools = 1

\* C8: connect() starts an attempt only while less than 60 time units have
\* passed since its first attempt started; it raises only once that budget is
\* used up (tenacity's RetryError), and when it returns the pool is set.
C8_ConnectRetriesWithinBudget ==
    \A t \in Tasks :
        /\ pc[t] \in {"connecting", "retrying"} => call[t].elapsed < StopAfterDelay
        /\ (ret[t].op = "connect" /\ ret[t].kind = "error")
           => /\ ret[t].error = "RetryError"
              /\ ret[t].elapsed >= StopAfterDelay
              /\ ret[t].attempts >= 1
        /\ (ret[t].op = "connect" /\ ret[t].kind = "ok") => connection_pool # None

\* connect() gave up exactly at the budget, after three failed attempts
C8_Witness ==
    \E t \in Tasks :
        /\ ret[t].op = "connect" /\ ret[t].error = "RetryError"
        /\ ret[t].attempts = 3 /\ ret[t].elapsed = StopAfterDelay

\* the calls C9 is about
PooledOps == {"fetch", "fetchrow", "reflect_schema"}

\* C9 as claimed: every fetch, fetchrow and reflect_schema call acquires
\* exactly one connection, runs one statement and releases the connection.
C9_EveryCallAcquiresOnce ==
    \A t \in Tasks :
        ret[t].op \in PooledOps
        => ret[t].acq = 1 /\ ret[t].stm = 1 /\ ret[t].rel = 1

\* C9 as amended: a fetch, fetchrow or reflect_schema call made on a DB that
\* has its pool acquires exactly one connection, runs one statement on it and
\* has released it when it returns or raises; a call made while
\* connection_pool is None raises without acquiring; whenever no call is in
\* progress no connection is held.
C9_ScopedAcquisition ==
    [][/\ (\A t \in Tasks : pc'[t] = "idle") => held' = 0
       /\ \A t \in Tasks :
             (ret'[t].tick # ret[t].tick /\ ret'[t].op \in PooledOps)
             => IF pc[t] = "idle"
                THEN /\ connection_pool = None
                     /\ ret'[t].error = "AttributeError"
                     /\ ret'[t].acq = 0 /\ ret'[t].stm = 0 /\ ret'[t].rel = 0
                ELSE ret'[t].acq = 1 /\ ret'[t].stm = 1 /\ ret'[t].rel = 1]_vars

\* a fetch whose statement the driver rejected has ended, nothing is held
C9_Witness ==
    \E t \in Tasks :
        /\ ret[t].op = "fetch" /\ ret[t].error \in DriverErrors
        /\ ret[t].acq = 1 /\ ret[t].rel = 1
        /\ held = 0

\* C10: when the driver rejects a statement, the call raises the driver's
\* error after running the statement once, and neither the schema cache nor
\* the pool reference changes, in the step that runs the statement and in
\* the step that raises.
C10_DriverErrorPropagates ==
    [][\A t \in Tasks :
          /\ (pc[t] = "executing" /\ pc'[t] = "releasing" /\ ~call'[t].outcome.ok)
             => /\ call'[t].stm = 1
                /\ schemas' = schemas /\ connection_pool' = connection_pool
          /\ (pc[t] = "releasing" /\ ~call[t].outcome.ok /\ pc'[t] # "releasing")
             => /\ Ends(t, call[t].op)
                /\ ret'[t].kind = "error" /\ ret'[t].error = call[t].outcome.error
                /\ ret'[t].stm = 1
                /\ schemas' = schemas /\ connection_pool' = connection_pool]_vars

\* Table.insert reached the driver, which rejected its statement
C10_Witness ==
    \E t \in Tasks :
        /\ ret[t].op = "insert" /\ ret[t].error \in DriverErrors /\ ret[t].stm = 1

----------------------------------------------------------------------------
(* Claims about the reflected model (SpecModel, Spec)                      *)

\* the positions of the primary-key columns of a table
PkPositions(table) == {i \in DOMAIN table.columns : table.columns[i].primary_key}

\* C11: reading pk_name of a table with no primary-key column, or with two
\* or more, raises (NotImplementedError); for a table with exactly one
\* primary-key column it returns that column's name; the read changes nothing.
C11_PkNameNeedsOnePrimaryKey ==
    [][\A t \in Tasks :
          Ends(t, "pk_name")
          => LET table == schemas[ret'[t].name].tables[ret'[t].table]
                 pks   == PkPositions(table)
             IN  /\ IF Cardinality(pks) = 1
                    THEN /\ ret'[t].kind = "value"
                         /\ \A i \in pks :
                               ret'[t].value.text = table.columns[i].column_name
                    ELSE /\ ret'[t].kind = "error"
                         /\ ret'[t].error = "NotImplementedError"
                 /\ schemas' = schemas /\ conf' = conf]_vars

\* pk_name of a table with a two-column primary key has raised
C11_Witness ==
    \E t \in Tasks :
        /\ ret[t].op = "pk_name" /\ ret[t].error = "NotImplementedError"
        /\ ret[t].name \in DOMAIN schemas
        /\ Cardinality(PkPositions(schemas[ret[t].name].tables[ret[t].table])) = 2

\* the Schema objects a reflection has built: cached, or handed to a caller
BuiltSchemas ==
    { schemas[n] : n \in DOMAIN schemas }
    \cup { ret[t].value.schema : t \in {u \in Tasks : ret[u].kind = "schema"} }

\* C12: in every table a reflection has built, whatever the order in which
\* the catalog query delivered the column descriptors, the columns are in
\* strictly increasing ordinal order.
C12_ColumnsInOrdinalOrder ==
    \A schema \in BuiltSchemas :
        \A n \in DOMAIN schema.tables :
            LET columns == schema.tables[n].columns
            IN  \A i, j \in DOMAIN columns :
                    i < j => columns[i].ordinal < columns[j].ordinal

\* C13: looking a name up as an attribute of a Schema returns the Table
\* stored under that name for every key of the table mapping, whatever the
\* table is called, and raises AttributeError for every other name; the
\* lookup changes nothing and reaches no connection.
C13_SchemaLookupReturnsTheTable ==
    [][\A t \in Tasks :
          Ends(t, "Schema.getattr")
          => LET schema == schemas[ret'[t].name]
                 attr   == ret'[t].attr
             IN  /\ IF attr \in DOMAIN schema.tables
                    THEN /\ ret'[t].kind = "table"
                         /\ ret'[t].value.table = schema.tables[attr]
                    ELSE /\ ret'[t].kind = "error"
                         /\ ret'[t].error = "AttributeError"
                 /\ schemas' = schemas /\ held' = held
                 /\ ret'[t].acq = 0 /\ ret'[t].stm = 0]_vars

\* C19: looking a name up as an attribute of a reflected Table returns the
\* Column of that name for every name of a column of the table, and raises
\* AttributeError only for a name that no column of the table has.
C19_TableLookupReturnsTheColumn ==
    [][\A t \in Tasks :
          Ends(t, "Table.getattr")
          => LET table == schemas[ret'[t].name].tables[ret'[t].table]
                 named == {i \in DOMAIN table.columns :
                             table.columns[i].column_name = ret'[t].attr}
             IN  /\ named # {}
                    => /\ ret'[t].kind = "column"
                       /\ \E i \in named :
                             ret'[t].value.columns = << table.columns[i] >>
                 /\ ret'[t].error = "AttributeError" => named = {}]_vars

\* C15: a reflection whose catalog query delivers zero table rows succeeds
\* with a Schema of that name whose table mapping is empty, and get_schema
\* stores that Schema in the cache like any other.
C15_EmptySchemaIsReflected ==
    [][\A t \in Tasks :
          (ReflectionEnds(t) /\ call[t].outcome.rows = << >>)
          => /\ ret'[t].kind = "schema"
             /\ ret'[t].value.schema.schema_name = call[t].name
             /\ DOMAIN ret'[t].value.schema.tables = {}
             /\ call[t].op = "get_schema"
                => /\ call[t].name \in DOMAIN schemas'
                   /\ schemas'[call[t].name] = ret'[t].value.schema]_vars

\* get_schema has returned and cached the Schema of a schema with no tables
C15_Witness ==
    \E t \in Tasks :
        /\ ret[t].op = "get_schema" /\ ret[t].kind = "schema" /\ ret[t].stm = 1
        /\ Database[ret[t].name] = << >>
        /\ ret[t].name \in DOMAIN schemas
        /\ schemas[ret[t].name] = ret[t].value.schema
        /\ DOMAIN schemas[ret[t].name].tables = {}

----------------------------------------------------------------------------
(* Claims about overlapping calls (SpecConc)                               *)

\* task t starts a get_schema(n) call in this step
GetSchemaStarts(t, n) ==
    /\ pc[t] = "idle"
    /\ \/ call'[t].op = "get_schema" /\ call'[t].name = n
       \/ Ends(t, "get_schema") /\ ret'[t].name = n

\* C14: no single-flight guard stops a caller: a get_schema(n) call that
\* starts on a DB with a pool while n is not cached goes on to acquire a
\* connection for the catalog query of n, whatever the other task is doing
\* (also while the other task is reflecting n), and every get_schema call
\* that missed the cache has run the catalog query once itself when it
\* ends. Two overlapping calls for one uncached name can so both run it.
C14_NoSingleFlight ==
    [][\A t \in Tasks :
          /\ \A n \in SchemaNames :
                (GetSchemaStarts(t, n) /\ n \notin DOMAIN schemas
                                       /\ connection_pool # None)
                => /\ pc'[t] = "acquiring"
                   /\ call'[t].command = CatalogQuery(n)
          /\ (Ends(t, "get_schema") /\ pc[t] = "releasing")
             => ret'[t].acq = 1 /\ ret'[t].stm = 1]_vars

\* two overlapping get_schema calls for the same name, uncached, have both
\* run the catalog query
C14_Witness ==
    \E t, u \in Tasks :
        /\ t # u
        /\ pc[t] = "releasing" /\ pc[u] = "releasing"
        /\ call[t].op = "get_schema" /\ call[u].op = "get_schema"
        /\ call[t].name = call[u].name
        /\ call[t].name \notin DOMAIN schemas
        /\ call[t].stm = 1 /\ call[u].stm = 1

\* C16 as claimed: under any interleaving of get_schema calls, once
\* DB.schemas holds a Schema for a name, that entry is never removed and
\* never replaced by a different Schema object.
C16_CacheEntryNeverReplaced ==
    [][\A n \in DOMAIN schemas :
          n \in DOMAIN schemas' /\ schemas'[n] = schemas[n]]_vars

\* C16 as amended: an entry of DB.schemas is never removed; it is replaced
\* only in the step in which a get_schema call for that name, which missed
\* the cache before the entry was stored and reflected on its own, ends and
\* stores its own Schema; every get_schema call that returns a Schema
\* returns the object the cache holds for the name at that moment.
C16_CacheEntryKeptOrOverwrittenByRace ==
    [][/\ \A n \in DOMAIN schemas :
             /\ n \in DOMAIN schemas'
             /\ schemas'[n] # schemas[n]
                => \E t \in Tasks :
                      /\ pc[t] = "releasing" /\ call[t].name = n
                      /\ Ends(t, "get_schema")
                      /\ ret'[t].value.schema = schemas'[n]
       /\ \A t \in Tasks :
             (Ends(t, "get_schema") /\ ret'[t].kind = "schema")
             => /\ ret'[t].name \in DOMAIN schemas'
                /\ ret'[t].value.schema = schemas'[ret'[t].name]]_vars

\* the cache holds the Schema the second of two overlapping reflections of
\* one name built, while the other caller holds the Schema it was given first
C16_Witness ==
    \E t, u \in Tasks :
        /\ t # u
        /\ ret[t].op = "get_schema" /\ ret[u].op = "get_schema"
        /\ ret[t].kind = "schema" /\ ret[u].kind = "schema"
        /\ ret[t].name = ret[u].name
        /\ ret[t].stm = 1 /\ ret[u].stm = 1
        /\ schemas[ret[t].name] = ret[t].value.schema
        /\ ret[u].value.schema # ret[t].value.schema

\* C18: under any interleaving of connect() calls on one DB, also calls that
\* overlap while the pool is being created, at most one pool is ever
\* created, and connection_pool, once set, is never replaced by another pool.
C18_AtMostOnePool ==
    [][/\ pools' <= 1
       /\ connection_pool # None => connection_pool' = connection_pool]_vars

----------------------------------------------------------------------------
(* Claims about access to the configuration (SpecConfig)                   *)

\* C17: obtaining the configuration (AlsoConfig(), DB.config,
\* Column.system_maintained) is read-only: in every step in which add_type
\* registers nothing and mark_system_column is not called, the instance
\* stays the one it was and the type mapping and the system-column list
\* stay exactly as they were.
C17_ConfigAccessIsReadOnly ==
    [][(registered' = registered /\ marked' = marked)
       => /\ instance => instance'
          /\ conf' = conf]_vars

\* C20: mark_system_column appends without deduplicating and nothing removes
\* entries: at any moment the system-column list holds the names marked so
\* far, each as many times as it was marked, in call order.
C20_SystemColumnsAreTheMarkedNames ==
    conf.system_columns = marked

====
